---- MODULE Spec2Model ----
(***************************************************************************)
(* edge-nal-embassy: fixed-capacity slot pools (lib.rs Pool<T, N>) and the *)
(* socket wrappers that own one slot each (tcp.rs TcpSocket, udp.rs        *)
(* UdpSocket, raw.rs RawSocket), together with the close / abort protocol  *)
(* of the stream socket.                                                   *)
(*                                                                         *)
(* Execution model: single-threaded cooperative tasks.  One action is the  *)
(* code a task runs between two suspension points (.await), so alloc, free *)
(* and Drop::drop are never interleaved with anything.  The network engine *)
(* (embassy-net) is the environment: it transmits queued data, delivers    *)
(* peer data / end-of-stream, completes or fails connect, accept, flush    *)
(* and read.                                                               *)
(***************************************************************************)
EXTENDS Integers, Sequences, FiniteSets, TLC

\* Pool capacity (the const generic N of Pool<T, N>).
N == 2
\* Number of socket wrapper objects the tasks of the model may hold.
MaxSock == 2

Slots == 0 .. (N - 1)
Socks == 1 .. MaxSock
Kinds == {"tcp", "udp", "raw"}

\* Result of Pool::alloc when the pool is exhausted (Option::None).
NoSlot == -1
\* buffer_token of a wrapper that does not exist.
NoTok == -1

\* Address families a caller may pass; `unspec` is IpAddr::is_unspecified().
Families == {"v4", "v6"}
Addrs == [fam : Families, unspec : BOOLEAN]
\* Families compiled into the engine (cargo features proto-ipv4 / proto-ipv6).
ProtoFeatures == {"v4"}

VARIABLES
    used,   \* used[k][n]: Pool::used[n] of the pool of kind k
    pc,     \* pc[w]: where the task holding wrapper w is
    kind,   \* kind[w]: socket kind of wrapper w
    tok,    \* tok[w]: buffer_token of wrapper w (offset from Pool::data, in units of T)
    eng,    \* eng[w]: state of the engine socket handle owned by w
    txq,    \* txq[w]: the engine holds queued, unflushed transmit data of w
    rx,     \* rx[w]: receive side: no data, unread data, or peer end-of-stream
    fl,     \* fl[w]: state of the flush future of the close / abort in flight
    rd,     \* rd[w]: state of the discard_all_data future of the close in flight
    frees,  \* frees[w]: number of free(buffer_token) calls made for wrapper w
    calls,  \* calls[w]: engine / pool calls made by Drop::drop of w, in order
    run,    \* run[k]: results of the alloc calls on pool k since it was last all free
    ret,    \* the call that returned last: operation, wrapper, result
    given,  \* given[k][n]: allocs of pool k that returned slot n since n was last freed
    halves, \* halves[w]: the read / write halves split off wrapper w are in use
    recov,  \* what followed the last NoBuffers failure on its (exhausted) pool
    trip    \* the round trip (alloc, free, alloc again) of one slot of a pool used directly

vars == <<used, pc, kind, tok, eng, txq, rx, fl, rd, frees, calls, run, ret, given, halves, recov, trip>>

Live == {"connecting", "accepting", "open", "closeRead", "closeWrite", "closeBoth", "abort"}
\* Positions of a task inside Pool::alloc (scan: at the test of used[n];
\* mark: between the test and `used[n].set(true)`) and inside Drop::drop
\* (freeing: before Pool::free clears the flag).
Inside == {"scan", "mark", "freeing"}
PcSet == {"none", "dropped"} \cup Live \cup Inside

NoRet == [op |-> "-", w |-> 0, k |-> "-", res |-> "-", fl |-> "-", rd |-> "-"]
Ret(op, w, k, res) == [op |-> op, w |-> w, k |-> k, res |-> res, fl |-> "-", rd |-> "-"]

(***************************************************************************)
(* lib.rs: Pool<T, N>                                                      *)
(***************************************************************************)

\* A scan in the opposite order: the free slot with the largest index wins.
RECURSIVE AllocScanDown(_, _)
AllocScanDown(u, n) ==
    IF n >= N THEN NoSlot
    ELSE IF ~u[N - 1 - n] THEN N - 1 - n
    ELSE AllocScanDown(u, n + 1)

\* A scan with the loop bound off by one: the last slot is never handed out.
RECURSIVE AllocScanShort(_, _)
AllocScanShort(u, n) ==
    IF n >= N - 1 THEN NoSlot
    ELSE IF ~u[n] THEN n
    ELSE AllocScanShort(u, n + 1)

\* The scan of Pool::alloc: `for n in 0..N { if !self.used[n].get() ...`.
RECURSIVE AllocScan(_, _)
AllocScan(u, n) ==
    IF n >= N THEN NoSlot
    ELSE IF ~u[n] THEN n
    ELSE AllocScan(u, n + 1)

\* A scan that finds a free slot but a pool that forgets `self.used[n].set(true)`.
PoolAllocNoMark(u) ==
    [slot |-> AllocScan(u, 0), used |-> u]

\* Pool::alloc: the pointer returned (as an offset from data, NoSlot for None)
\* and the used flags afterwards.
PoolAlloc(u) ==
    LET n == AllocScan(u, 0) IN
    [slot |-> n, used |-> IF n = NoSlot THEN u ELSE [u EXCEPT ![n] = TRUE]]

\* An index check that lets the position one past the array through.
PoolFreeIndexOkInclusive(p) == p >= 0 /\ p <= N

\* Pool::free: n = p.offset_from(origin); both assertions must pass.
PoolFreeIndexOk(p) == p >= 0 /\ p < N

\* A free with the offset off by one: the flag of the next slot is cleared.
PoolFreeNextSlot(u, p) ==
    IF PoolFreeIndexOk(p) THEN [u EXCEPT ![(p + 1) % N] = FALSE] ELSE u

\* A free that resets the whole pool instead of one slot.
PoolFreeAll(u, p) == [n \in Slots |-> FALSE]

\* A free that clears nothing.
PoolFreeNoClear(u, p) == u

\* Pool::free: the used flags after free(p) (p within range).
PoolFree(u, p) ==
    IF PoolFreeIndexOk(p) THEN [u EXCEPT ![p] = FALSE] ELSE u

\* lib.rs to_emb_addr: None when the family is not compiled in.
ToEmbAddr(a) == a.fam \in ProtoFeatures

\* lib.rs to_emb_socket: Some iff to_emb_addr is Some.
ToEmbSocket(a) == ToEmbAddr(a)

\* lib.rs to_emb_bind_socket: the unspecified address maps to addr: None
\* without consulting to_emb_addr.
ToEmbBindSocket(a) == IF a.unspec THEN TRUE ELSE ToEmbAddr(a)

UsedCount(k) == Cardinality({n \in Slots : used[k][n]})
Exhausted(k) == \A n \in Slots : used[k][n]


(***************************************************************************)
(* Drop::drop of the three wrappers: the calls made, in program order.     *)
(* The engine handle (field `socket`) is dropped after the body of drop    *)
(* has run, which removes the engine socket from the stack.                *)
(***************************************************************************)

\* A TcpSocket teardown that frees the slot and only then signals the engine.
TcpDropCallsSwapped == <<"free", "close">>

\* A TcpSocket teardown that never returns the token.
TcpDropCallsNoFree == <<"close">>

\* A TcpSocket teardown that returns the token twice.
TcpDropCallsTwice == <<"close", "free", "free">>

\* tcp.rs impl Drop for TcpSocket: self.socket.close(); free(self.buffer_token).
TcpDropCalls == <<"close", "free">>

\* udp.rs impl Drop for UdpSocket: self.socket.close(); free(self.buffer_token).
UdpDropCalls == <<"close", "free">>

\* A RawSocket teardown that keeps the token (the slot leaks).
RawDropCallsNone == <<>>

\* raw.rs impl Drop for RawSocket: free(self.buffer_token) only.
RawDropCalls == <<"free">>

DropCalls(k) ==
    CASE k = "tcp" -> TcpDropCalls
      [] k = "udp" -> UdpDropCalls
      [] OTHER -> RawDropCalls

IsFree(c) == c = "free"
FreeCalls(cs) == Len(SelectSeq(cs, IsFree))

\* The used flags of one pool after the calls cs of a teardown holding token t.
RECURSIVE RunCalls(_, _, _)
RunCalls(u, t, cs) ==
    IF cs = <<>> THEN u
    ELSE RunCalls(IF Head(cs) = "free" THEN PoolFree(u, t) ELSE u, t, Tail(cs))

Fresh(w) == pc[w] \in {"none", "dropped"}

\* Lengths of the regions of one slot: the defaults of the const parameters
\* TX_SZ, RX_SZ and M of TcpBuffers, UdpBuffers and RawBuffers.
TcpTxSz == 1024
TcpRxSz == 1024
UdpTxSz == 1472
UdpRxSz == 1472
UdpM == 2
RawTxSz == 1472
RawRxSz == 1472
RawM == 2

\* The address of tuple field i of element n of Pool::data.  Distinct
\* (element, field) pairs are distinct, non-overlapping regions.
Region(n, i) == [slot |-> n, field |-> i]

\* SealedDynPool<TcpSocketBuffers>::alloc for slot n: the token is the pointer
\* to the element (its offset from Pool::data is n), tx_buf is field .0 and
\* rx_buf field .1, each with the length of its array.
TcpSocketBuffers(n) ==
    [token      |-> n,
     rx_buf     |-> Region(n, 1),
     tx_buf     |-> Region(n, 0),
     rx_buf_len |-> TcpRxSz,
     tx_buf_len |-> TcpTxSz]

UdpSocketBuffersMdLenOfRx(n) ==
    [token      |-> n,
     rx_buf     |-> Region(n, 1),
     tx_buf     |-> Region(n, 0),
     md_rx_buf  |-> Region(n, 3),
     md_tx_buf  |-> Region(n, 2),
     rx_buf_len |-> UdpRxSz,
     tx_buf_len |-> UdpTxSz,
     md_buf_len |-> UdpRxSz]

\* SealedDynPool<UdpSocketBuffers>::alloc for slot n: fields .0 .. .3 are the
\* tx, rx, tx metadata and rx metadata arrays; md_buf_len is the length of
\* the rx metadata array.
UdpSocketBuffers(n) ==
    [token      |-> n,
     rx_buf     |-> Region(n, 1),
     tx_buf     |-> Region(n, 0),
     md_rx_buf  |-> Region(n, 3),
     md_tx_buf  |-> Region(n, 2),
     rx_buf_len |-> UdpRxSz,
     tx_buf_len |-> UdpTxSz,
     md_buf_len |-> UdpM]

\* SealedDynPool<RawSocketBuffers>::alloc for slot n, of the same shape.
RawSocketBuffers(n) ==
    [token      |-> n,
     rx_buf     |-> Region(n, 1),
     tx_buf     |-> Region(n, 0),
     md_rx_buf  |-> Region(n, 3),
     md_tx_buf  |-> Region(n, 2),
     rx_buf_len |-> RawRxSz,
     tx_buf_len |-> RawTxSz,
     md_buf_len |-> RawM]

SocketBuffers(k, n) ==
    CASE k = "tcp" -> TcpSocketBuffers(n)
      [] k = "udp" -> UdpSocketBuffers(n)
      [] k = "raw" -> RawSocketBuffers(n)

\* Observer of one round trip on a pool: the descriptor d1 of an allocation
\* of slot n ("held"), the free of its token ("freed"), and the descriptor
\* d2 of the next allocation that returns slot n ("again").
NoDesc == [token |-> NoTok]
NoTrip == [k |-> "-", n |-> NoSlot, st |-> "-", d1 |-> NoDesc, d2 |-> NoDesc]
TripAlloc(t, k, n, d) ==
    IF t.k = k /\ t.st = "freed"
    THEN IF t.n = n THEN [t EXCEPT !.st = "again", !.d2 = d] ELSE t
    ELSE [k |-> k, n |-> n, st |-> "held", d1 |-> d, d2 |-> NoDesc]
TripFree(t, k, n) ==
    IF t.k = k /\ t.n = n
    THEN IF t.st = "held" THEN [t EXCEPT !.st = "freed"] ELSE NoTrip
    ELSE t

\* History of the alloc calls on one pool: ok while no free has happened since
\* the pool was last all free; seq holds the results (at most N + 1 of them).
NoRun == [ok |-> TRUE, seq |-> <<>>]
RunAlloc(r, s) ==
    IF r.ok /\ Len(r.seq) <= N THEN [r EXCEPT !.seq = Append(@, s)] ELSE r
RunFree(u) ==
    IF \A n \in Slots : ~u[n] THEN NoRun ELSE [ok |-> FALSE, seq |-> <<>>]

\* History of the slots handed out: one more alloc returned slot t (counted
\* up to 2), and the calls cs of a teardown holding token t were made.
GiveSlot(g, t) == [g EXCEPT ![t] = IF @ < 2 THEN @ + 1 ELSE @]
TakeSlot(g, t, cs) == IF FreeCalls(cs) > 0 /\ t \in Slots THEN [g EXCEPT ![t] = 0] ELSE g

\* History of the recovery from exhaustion.  failed: a constructor found
\* pool k exhausted; freed: since then exactly one token, of slot `slot`, was
\* freed in pool k and nothing else happened on it; ok / bad: the alloc that
\* came next did / did not return that slot (NoBuffers counts as bad).
NoRecov == [k |-> "-", st |-> "-", slot |-> NoSlot]
RecovFail(o, k) ==
    IF o.st = "bad" THEN o
    ELSE IF o.k = k /\ o.st = "freed" THEN [o EXCEPT !.st = "bad"]
    ELSE [k |-> k, st |-> "failed", slot |-> NoSlot]
RecovAlloc(o, k, t) ==
    IF o.st = "bad" \/ o.k # k THEN o
    ELSE IF o.st = "freed" THEN [o EXCEPT !.st = IF t = o.slot THEN "ok" ELSE "bad"]
    ELSE NoRecov
RecovFree(o, k, t, cs) ==
    IF o.st = "bad" \/ o.k # k \/ FreeCalls(cs) = 0 THEN o
    ELSE IF o.st = "failed" THEN [o EXCEPT !.st = "freed", !.slot = t]
    ELSE NoRecov

\* Wrapper w of kind k was built over slot t (pool flags u after the alloc)
\* and is owned by the caller, at position p.
Created(w, k, t, u, p) ==
    /\ used' = [used EXCEPT ![k] = u]
    /\ pc' = [pc EXCEPT ![w] = p]
    /\ kind' = [kind EXCEPT ![w] = k]
    /\ tok' = [tok EXCEPT ![w] = t]
    /\ eng' = [eng EXCEPT ![w] = "open"]
    /\ txq' = [txq EXCEPT ![w] = FALSE]
    /\ rx' = [rx EXCEPT ![w] = "none"]
    /\ fl' = [fl EXCEPT ![w] = "-"]
    /\ rd' = [rd EXCEPT ![w] = "-"]
    /\ frees' = [frees EXCEPT ![w] = 0]
    /\ calls' = [calls EXCEPT ![w] = <<>>]
    /\ run' = [run EXCEPT ![k] = RunAlloc(@, t)]
    /\ given' = [given EXCEPT ![k] = GiveSlot(@, t)]
    /\ recov' = RecovAlloc(recov, k, t)
    /\ UNCHANGED trip
    /\ UNCHANGED halves

\* Wrapper w of kind k holding token t goes out of scope (pool flags u and
\* alloc history r, g, o before the teardown; f free calls were made for it
\* before): Drop::drop runs, then the engine handle is dropped.  Halves
\* borrowed from the wrapper have gone out of scope before it.
Teardown(w, k, t, u, r, g, o, f) ==
    /\ used' = [used EXCEPT ![k] = RunCalls(u, t, DropCalls(k))]
    /\ run' = [run EXCEPT ![k] = IF FreeCalls(DropCalls(k)) > 0
                                  THEN RunFree(RunCalls(u, t, DropCalls(k)))
                                  ELSE r]
    /\ pc' = [pc EXCEPT ![w] = "dropped"]
    /\ kind' = [kind EXCEPT ![w] = k]
    /\ tok' = [tok EXCEPT ![w] = t]
    /\ eng' = [eng EXCEPT ![w] = "none"]
    /\ txq' = [txq EXCEPT ![w] = FALSE]
    /\ rx' = [rx EXCEPT ![w] = "none"]
    /\ fl' = [fl EXCEPT ![w] = "-"]
    /\ rd' = [rd EXCEPT ![w] = "-"]
    /\ frees' = [frees EXCEPT ![w] = f + FreeCalls(DropCalls(k))]
    /\ calls' = [calls EXCEPT ![w] = DropCalls(k)]
    /\ given' = [given EXCEPT ![k] = TakeSlot(g, t, DropCalls(k))]
    /\ recov' = RecovFree(o, k, t, DropCalls(k))
    /\ UNCHANGED trip
    /\ halves' = [halves EXCEPT ![w] = FALSE]

\* An exhausted pool reported with the error of another failure.
NoBuffersWrongError(op, k) ==
    /\ ret' = Ret(op, 0, k, "UnsupportedProto")
    /\ run' = [run EXCEPT ![k] = RunAlloc(@, NoSlot)]
    /\ UNCHANGED <<used, given, halves, pc, kind, tok, eng, txq, rx, fl, rd, frees, calls>>
    /\ recov' = RecovFail(recov, k)
    /\ UNCHANGED trip

\* `stack_buffers.alloc().ok_or(XxxError::NoBuffers)?` on an exhausted pool:
\* the constructor returns before any engine socket is built.
NoBuffers(op, k) ==
    /\ ret' = Ret(op, 0, k, "NoBuffers")
    /\ run' = [run EXCEPT ![k] = RunAlloc(@, NoSlot)]
    /\ UNCHANGED <<used, given, halves, pc, kind, tok, eng, txq, rx, fl, rd, frees, calls>>
    /\ recov' = RecovFail(recov, k)
    /\ UNCHANGED trip

Init ==
    /\ used = [k \in Kinds |-> [n \in Slots |-> FALSE]]
    /\ pc = [w \in Socks |-> "none"]
    /\ kind = [w \in Socks |-> "-"]
    /\ tok = [w \in Socks |-> NoTok]
    /\ eng = [w \in Socks |-> "none"]
    /\ txq = [w \in Socks |-> FALSE]
    /\ rx = [w \in Socks |-> "none"]
    /\ fl = [w \in Socks |-> "-"]
    /\ rd = [w \in Socks |-> "-"]
    /\ frees = [w \in Socks |-> 0]
    /\ calls = [w \in Socks |-> <<>>]
    /\ run = [k \in Kinds |-> NoRun]
    /\ given = [k \in Kinds |-> [n \in Slots |-> 0]]
    /\ halves = [w \in Socks |-> FALSE]
    /\ recov = NoRecov
    /\ trip = NoTrip
    /\ ret = NoRet

(***************************************************************************)
(* Constructors                                                            *)
(***************************************************************************)

\* tcp.rs Tcp::connect up to its first suspension: TcpSocket::new, then the
\* address conversion, then the engine connect is awaited.
TcpConnect(w, remote) ==
    LET a == PoolAlloc(used["tcp"]) IN
    IF a.slot = NoSlot
    THEN NoBuffers("connect", "tcp")
    ELSE
        /\ Fresh(w)
        /\ IF ~ToEmbSocket(remote)
           THEN /\ Teardown(w, "tcp", a.slot, a.used, RunAlloc(run["tcp"], a.slot),
                                GiveSlot(given["tcp"], a.slot),
                                RecovAlloc(recov, "tcp", a.slot), 0)
                /\ ret' = Ret("connect", w, "tcp", "UnsupportedProto")
           ELSE /\ Created(w, "tcp", a.slot, a.used, "connecting")
                /\ UNCHANGED ret

\* The engine completes the connect: Tcp::connect returns Ok(socket).
ConnectDone(w) ==
    /\ pc[w] = "connecting"
    /\ pc' = [pc EXCEPT ![w] = "open"]
    /\ ret' = Ret("connect", w, "tcp", "Ok")
    /\ UNCHANGED <<used, given, recov, trip, halves, kind, tok, eng, txq, rx, fl, rd, frees, calls, run>>

\* The engine fails the connect: `.await?` returns Err(TcpError::Connect) and
\* the local `socket` is dropped.
ConnectFail(w) ==
    /\ pc[w] = "connecting"
    /\ Teardown(w, "tcp", tok[w], used["tcp"], run["tcp"], given["tcp"], recov, frees[w])
    /\ ret' = Ret("connect", w, "tcp", "Connect")

\* tcp.rs TcpError::kind (udp.rs UdpError::kind maps the same two variants
\* the same way): the embedded-io error kind of a returned error.
ErrorKind(res) ==
    CASE res = "NoBuffers" -> "OutOfMemory"
      [] res = "UnsupportedProto" -> "InvalidInput"
      [] OTHER -> "Other"

\* tcp.rs Tcp::bind: `Ok(TcpAccept { stack: *self, local })`.  The address is
\* stored as given: no conversion, no pool access, no engine call.
TcpBind(local) ==
    /\ ret' = Ret("bind", 0, "tcp", "Ok")
    /\ UNCHANGED <<used, given, recov, trip, halves, pc, kind, tok, eng, txq, rx, fl, rd, frees, calls, run>>

\* An accept that suspends before it has marked a slot: the slot is found
\* but its used flag is left clear while the accept is pending.
TcpAcceptLateAlloc(w, local) ==
    LET a == PoolAlloc(used["tcp"]) IN
    IF a.slot = NoSlot
    THEN NoBuffers("accept", "tcp")
    ELSE
        /\ Fresh(w)
        /\ Created(w, "tcp", a.slot, used["tcp"], "accepting")
        /\ UNCHANGED ret

\* tcp.rs TcpAccept::accept up to its first suspension (local: the address
\* the acceptor was bound to, which Tcp::bind accepts whatever it is).
TcpAccept(w, local) ==
    LET a == PoolAlloc(used["tcp"]) IN
    IF a.slot = NoSlot
    THEN NoBuffers("accept", "tcp")
    ELSE
        /\ Fresh(w)
        /\ IF ~ToEmbBindSocket(local)
           THEN /\ Teardown(w, "tcp", a.slot, a.used, RunAlloc(run["tcp"], a.slot),
                                GiveSlot(given["tcp"], a.slot),
                                RecovAlloc(recov, "tcp", a.slot), 0)
                /\ ret' = Ret("accept", w, "tcp", "UnsupportedProto")
           ELSE /\ Created(w, "tcp", a.slot, a.used, "accepting")
                /\ UNCHANGED ret

\* The engine accepts a connection: accept returns Ok((addr, socket)).
AcceptDone(w) ==
    /\ pc[w] = "accepting"
    /\ pc' = [pc EXCEPT ![w] = "open"]
    /\ ret' = Ret("accept", w, "tcp", "Ok")
    /\ UNCHANGED <<used, given, recov, trip, halves, kind, tok, eng, txq, rx, fl, rd, frees, calls, run>>

\* The engine fails the accept: Err(TcpError::Accept), `socket` is dropped.
AcceptFail(w) ==
    /\ pc[w] = "accepting"
    /\ Teardown(w, "tcp", tok[w], used["tcp"], run["tcp"], given["tcp"], recov, frees[w])
    /\ ret' = Ret("accept", w, "tcp", "Accept")

\* udp.rs Udp::bind: UdpSocket::new, the address conversion, the engine bind
\* (bindOk: the engine accepted the endpoint).  No suspension point.
UdpBind(w, local, bindOk) ==
    LET a == PoolAlloc(used["udp"]) IN
    IF a.slot = NoSlot
    THEN NoBuffers("bind", "udp")
    ELSE
        /\ Fresh(w)
        /\ IF ~ToEmbBindSocket(local)
           THEN /\ Teardown(w, "udp", a.slot, a.used, RunAlloc(run["udp"], a.slot),
                                GiveSlot(given["udp"], a.slot),
                                RecovAlloc(recov, "udp", a.slot), 0)
                /\ ret' = Ret("bind", w, "udp", "UnsupportedProto")
           ELSE IF ~bindOk
           THEN /\ Teardown(w, "udp", a.slot, a.used, RunAlloc(run["udp"], a.slot),
                                GiveSlot(given["udp"], a.slot),
                                RecovAlloc(recov, "udp", a.slot), 0)
                /\ ret' = Ret("bind", w, "udp", "Bind")
           ELSE /\ Created(w, "udp", a.slot, a.used, "open")
                /\ ret' = Ret("bind", w, "udp", "Ok")

\* raw.rs Raw::bind: RawSocket::new(stack, buffers, None, None).
RawBind(w) ==
    LET a == PoolAlloc(used["raw"]) IN
    IF a.slot = NoSlot
    THEN NoBuffers("bind", "raw")
    ELSE
        /\ Fresh(w)
        /\ Created(w, "raw", a.slot, a.used, "open")
        /\ ret' = Ret("bind", w, "raw", "Ok")

\* A drop that waits for the operation in flight to return.
DropWhenIdle(w) ==
    /\ pc[w] = "open"
    /\ Teardown(w, kind[w], tok[w], used[kind[w]], run[kind[w]], given[kind[w]], recov, frees[w])
    /\ ret' = [Ret("drop", w, kind[w], "-") EXCEPT !.fl = fl[w], !.rd = rd[w]]

\* The wrapper goes out of scope (after a cancelled operation too: dropping
\* the suspended future runs no code of this crate).  The record of the call
\* keeps the states of the futures that were abandoned.
Drop(w) ==
    /\ pc[w] \in Live
    /\ Teardown(w, kind[w], tok[w], used[kind[w]], run[kind[w]], given[kind[w]], recov, frees[w])
    /\ ret' = [Ret("drop", w, kind[w], "-") EXCEPT !.fl = fl[w], !.rd = rd[w]]


(***************************************************************************)
(* tcp.rs: close / abort of the stream socket                              *)
(***************************************************************************)

\* embassy_net TcpSocket::close(): the half-close signal (no effect on a
\* connection that was aborted).
EngineClose(e) == IF e = "open" THEN "closed" ELSE e

\* A select in place of the join: done as soon as either future is done.
JoinReadyEither(f, r) == f # "pend" \/ r # "pend"

\* embassy_futures::join::join(flush, read): ready when both futures are done.
JoinReady(f, r) == f # "pend" /\ r # "pend"

\* The match arms in the opposite order: the read error wins the tie.
CloseBothResultReadFirst(f, r) ==
    IF r = "err" THEN "ReadErr"
    ELSE IF f = "err" THEN "FlushErr"
    ELSE "Ok"

\* tcp.rs close, Close::Both: `(Err(e), _) => Err(e)?, (_, Err(e)) => Err(e)?,
\* _ => ()` over (flush result, discard result).
CloseBothResult(f, r) ==
    IF f = "err" THEN "FlushErr"
    ELSE IF r = "err" THEN "ReadErr"
    ELSE "Ok"

\* The suspended operation p of a stream socket is complete with the future
\* states f (flush) and r (discard_all_data).
OpReady(p, f, r) ==
    CASE p = "closeBoth" -> JoinReady(f, r)
      [] p = "closeRead" -> r # "pend"
      [] OTHER -> f # "pend"

\* The result the operation p returns: `?` on the one future it awaits, or
\* the match over the join.
OpResult(p, f, r) ==
    CASE p = "closeBoth" -> CloseBothResult(f, r)
      [] p = "closeRead" -> IF r = "err" THEN "ReadErr" ELSE "Ok"
      [] OTHER -> IF f = "err" THEN "FlushErr" ELSE "Ok"

\* The futures of wrapper w moved to the states f and r: the operation
\* returns when it is complete, and stays suspended otherwise.
Progress(w, f, r) ==
    IF OpReady(pc[w], f, r)
    THEN /\ pc' = [pc EXCEPT ![w] = "open"]
         /\ fl' = [fl EXCEPT ![w] = "-"]
         /\ rd' = [rd EXCEPT ![w] = "-"]
         /\ ret' = [op |-> pc[w], w |-> w, k |-> "tcp",
                    res |-> OpResult(pc[w], f, r), fl |-> f, rd |-> r]
    ELSE /\ fl' = [fl EXCEPT ![w] = f]
         /\ rd' = [rd EXCEPT ![w] = r]
         /\ UNCHANGED <<pc, ret>>

ClosePc(what) ==
    CASE what = "Read" -> "closeRead"
      [] what = "Write" -> "closeWrite"
      [] OTHER -> "closeBoth"

\* A close that sends the half-close signal whatever the direction.
CloseAlwaysSignal(w, what) ==
    /\ pc[w] = "open"
    /\ kind[w] = "tcp"
    /\ ~halves[w]
    /\ eng' = [eng EXCEPT ![w] = EngineClose(@)]
    /\ pc' = [pc EXCEPT ![w] = ClosePc(what)]
    /\ fl' = [fl EXCEPT ![w] = IF what \in {"Both", "Write"} THEN "pend" ELSE "-"]
    /\ rd' = [rd EXCEPT ![w] = IF what \in {"Both", "Read"} THEN "pend" ELSE "-"]
    /\ UNCHANGED <<used, given, recov, trip, halves, kind, tok, txq, rx, frees, calls, run, ret>>

\* A close that starts its waits without any half-close signal.
CloseNoSignal(w, what) ==
    /\ pc[w] = "open"
    /\ kind[w] = "tcp"
    /\ ~halves[w]
    /\ pc' = [pc EXCEPT ![w] = ClosePc(what)]
    /\ fl' = [fl EXCEPT ![w] = IF what \in {"Both", "Write"} THEN "pend" ELSE "-"]
    /\ rd' = [rd EXCEPT ![w] = IF what \in {"Both", "Read"} THEN "pend" ELSE "-"]
    /\ UNCHANGED <<used, given, recov, trip, halves, kind, tok, eng, txq, rx, frees, calls, run, ret>>

\* TcpSocket::close(what) up to its first suspension: the half-close signal
\* for Both and Write, then the wait(s) begin.  close and abort take
\* `&mut self`, which halves still in use exclude.
Close(w, what) ==
    /\ pc[w] = "open"
    /\ kind[w] = "tcp"
    /\ ~halves[w]
    /\ eng' = [eng EXCEPT ![w] = IF what \in {"Both", "Write"} THEN EngineClose(@) ELSE @]
    /\ pc' = [pc EXCEPT ![w] = ClosePc(what)]
    /\ fl' = [fl EXCEPT ![w] = IF what \in {"Both", "Write"} THEN "pend" ELSE "-"]
    /\ rd' = [rd EXCEPT ![w] = IF what \in {"Both", "Read"} THEN "pend" ELSE "-"]
    /\ UNCHANGED <<used, given, recov, trip, halves, kind, tok, txq, rx, frees, calls, run, ret>>

\* An abort that returns Ok right after the engine abort, without the flush.
AbortNoWait(w) ==
    /\ pc[w] = "open"
    /\ kind[w] = "tcp"
    /\ ~halves[w]
    /\ eng' = [eng EXCEPT ![w] = "aborted"]
    /\ ret' = Ret("abort", w, "tcp", "Ok")
    /\ UNCHANGED <<used, given, recov, trip, halves, pc, kind, tok, txq, rx, fl, rd, frees, calls, run>>

\* TcpSocket::abort up to its suspension: engine abort, then flush is awaited.
Abort(w) ==
    /\ pc[w] = "open"
    /\ kind[w] = "tcp"
    /\ ~halves[w]
    /\ eng' = [eng EXCEPT ![w] = "aborted"]
    /\ pc' = [pc EXCEPT ![w] = "abort"]
    /\ fl' = [fl EXCEPT ![w] = "pend"]
    /\ UNCHANGED <<used, given, recov, trip, halves, kind, tok, txq, rx, rd, frees, calls, run, ret>>

\* The awaited flush completes: the engine has no queued transmit data left.
FlushDone(w) ==
    /\ fl[w] = "pend"
    /\ ~txq[w]
    /\ Progress(w, "ok", rd[w])
    /\ UNCHANGED <<used, given, recov, trip, halves, kind, tok, eng, txq, rx, frees, calls, run>>

\* A failed flush that also returns the token of the socket to the pool.
FlushFailFrees(w) ==
    /\ fl[w] = "pend"
    /\ Progress(w, "err", rd[w])
    /\ used' = [used EXCEPT ![kind[w]] = PoolFree(@, tok[w])]
    /\ UNCHANGED <<given, recov, trip, halves, kind, tok, eng, txq, rx, frees, calls, run>>

\* The awaited flush fails with a transport error.
FlushFail(w) ==
    /\ fl[w] = "pend"
    /\ Progress(w, "err", rd[w])
    /\ UNCHANGED <<used, given, recov, trip, halves, kind, tok, eng, txq, rx, frees, calls, run>>

\* A discard that stops after the first read, whatever its length.
DiscardReadOnce(w, more) ==
    /\ rd[w] = "pend"
    /\ rx[w] \in {"data", "eof"}
    /\ Progress(w, fl[w], "ok")
    /\ rx' = [rx EXCEPT ![w] = IF rx[w] = "data" /\ ~more THEN "none" ELSE @]
    /\ UNCHANGED <<used, given, recov, trip, halves, kind, tok, eng, txq, frees, calls, run>>

\* A discard loop that does not end at a read of length zero: at the peer's
\* end-of-stream it reads again.
DiscardReadNoEnd(w, more) ==
    /\ rd[w] = "pend"
    /\ rx[w] \in {"data", "eof"}
    /\ rx' = [rx EXCEPT ![w] = IF rx[w] = "data" /\ ~more THEN "none" ELSE @]
    /\ UNCHANGED <<used, given, recov, trip, halves, pc, kind, tok, eng, txq, fl, rd, frees, calls, run, ret>>

\* One iteration of discard_all_data: `while rx.read(&mut buf).await? > 0 {}`.
\* A read of unread data returns > 0 (more: unread data remains) and the loop
\* goes on; a read at the peer's end-of-stream returns 0 and the loop ends.
DiscardRead(w, more) ==
    /\ rd[w] = "pend"
    /\ rx[w] \in {"data", "eof"}
    /\ IF rx[w] = "data"
       THEN /\ rx' = [rx EXCEPT ![w] = IF more THEN "data" ELSE "none"]
            /\ UNCHANGED <<pc, fl, rd, ret>>
       ELSE /\ Progress(w, fl[w], "ok")
            /\ UNCHANGED rx
    /\ UNCHANGED <<used, given, recov, trip, halves, kind, tok, eng, txq, frees, calls, run>>

\* A read of discard_all_data fails with a transport error.
DiscardFail(w) ==
    /\ rd[w] = "pend"
    /\ Progress(w, fl[w], "err")
    /\ UNCHANGED <<used, given, recov, trip, halves, kind, tok, eng, txq, rx, frees, calls, run>>

(***************************************************************************)
(* Data on an open stream socket, and the engine / the peer                *)
(***************************************************************************)

\* Write::write on the socket (or on its write half): data is queued in the
\* transmit buffer of the slot.
Write(w) ==
    /\ pc[w] = "open"
    /\ kind[w] = "tcp"
    /\ eng[w] = "open"
    /\ txq' = [txq EXCEPT ![w] = TRUE]
    /\ UNCHANGED <<used, given, recov, trip, halves, pc, kind, tok, eng, rx, fl, rd, frees, calls, run, ret>>

\* Read::read on the socket (or on its read half) with unread data in the
\* receive buffer of the slot (more: unread data remains afterwards).
Read(w, more) ==
    /\ pc[w] = "open"
    /\ kind[w] = "tcp"
    /\ rx[w] = "data"
    /\ rx' = [rx EXCEPT ![w] = IF more THEN "data" ELSE "none"]
    /\ UNCHANGED <<used, given, recov, trip, halves, pc, kind, tok, eng, txq, fl, rd, frees, calls, run, ret>>

\* UdpSend::send(remote, data) / RawSend::send(data) on the socket (or on
\* the `&Self` send half): the UDP remote address is converted first, then a
\* packet is queued in the transmit buffer of the slot.
Send(w, remote) ==
    /\ pc[w] = "open"
    /\ kind[w] \in {"udp", "raw"}
    /\ IF kind[w] = "udp" /\ ~ToEmbSocket(remote)
       THEN /\ ret' = Ret("send", w, "udp", "UnsupportedProto")
            /\ UNCHANGED txq
       ELSE /\ txq' = [txq EXCEPT ![w] = TRUE]
            /\ UNCHANGED ret
    /\ UNCHANGED <<used, given, recov, trip, halves, pc, kind, tok, eng, rx, fl, rd, frees, calls, run>>

\* TcpSplit / UdpSplit / RawSplit::split: halves over the engine socket
\* (TCP) or two shared references to the wrapper (UDP, raw).  No token is
\* copied, no pool call is made.
Split(w) ==
    /\ pc[w] = "open"
    /\ ~halves[w]
    /\ halves' = [halves EXCEPT ![w] = TRUE]
    /\ UNCHANGED <<used, given, recov, trip, pc, kind, tok, eng, txq, rx, fl, rd, frees, calls, run, ret>>

\* Halves that own a copy of the token and return it when they are dropped.
DropHalvesFrees(w) ==
    /\ halves[w]
    /\ halves' = [halves EXCEPT ![w] = FALSE]
    /\ used' = [used EXCEPT ![kind[w]] = PoolFree(@, tok[w])]
    /\ frees' = [frees EXCEPT ![w] = @ + 1]
    /\ UNCHANGED <<given, recov, trip, pc, kind, tok, eng, txq, rx, fl, rd, calls, run, ret>>

\* The halves go out of scope: they have no Drop impl, no code runs.
DropHalves(w) ==
    /\ halves[w]
    /\ halves' = [halves EXCEPT ![w] = FALSE]
    /\ UNCHANGED <<used, given, recov, trip, pc, kind, tok, eng, txq, rx, fl, rd, frees, calls, run, ret>>

\* The engine has sent (or, after an abort, given up) all queued data of w.
EngineTransmit(w) ==
    /\ eng[w] # "none"
    /\ txq[w]
    /\ txq' = [txq EXCEPT ![w] = FALSE]
    /\ UNCHANGED <<used, given, recov, trip, halves, pc, kind, tok, eng, rx, fl, rd, frees, calls, run, ret>>

Connected(w) ==
    /\ kind[w] = "tcp"
    /\ pc[w] \in Live \ {"connecting", "accepting"}
    /\ eng[w] \in {"open", "closed"}

\* Data of the peer arrives in the receive buffer of the slot.
PeerSend(w) ==
    /\ Connected(w)
    /\ rx[w] = "none"
    /\ rx' = [rx EXCEPT ![w] = "data"]
    /\ UNCHANGED <<used, given, recov, trip, halves, pc, kind, tok, eng, txq, fl, rd, frees, calls, run, ret>>

\* The peer closes its direction: reads return 0 once the data is consumed.
PeerFin(w) ==
    /\ Connected(w)
    /\ rx[w] = "none"
    /\ rx' = [rx EXCEPT ![w] = "eof"]
    /\ UNCHANGED <<used, given, recov, trip, halves, pc, kind, tok, eng, txq, fl, rd, frees, calls, run, ret>>

Next ==
    \/ \E w \in Socks, a \in Addrs : TcpConnect(w, a)
    \/ \E w \in Socks : ConnectDone(w)
    \/ \E w \in Socks : ConnectFail(w)
    \/ \E a \in Addrs : TcpBind(a)
    \/ \E w \in Socks, a \in Addrs : TcpAccept(w, a)
    \/ \E w \in Socks : AcceptDone(w)
    \/ \E w \in Socks : AcceptFail(w)
    \/ \E w \in Socks, a \in Addrs, ok \in BOOLEAN : UdpBind(w, a, ok)
    \/ \E w \in Socks : RawBind(w)
    \/ \E w \in Socks, what \in {"Read", "Write", "Both"} : Close(w, what)
    \/ \E w \in Socks : Abort(w)
    \/ \E w \in Socks : FlushDone(w)
    \/ \E w \in Socks : FlushFail(w)
    \/ \E w \in Socks, more \in BOOLEAN : DiscardRead(w, more)
    \/ \E w \in Socks : DiscardFail(w)
    \/ \E w \in Socks : Write(w)
    \/ \E w \in Socks : EngineTransmit(w)
    \/ \E w \in Socks : PeerSend(w)
    \/ \E w \in Socks : PeerFin(w)
    \/ \E w \in Socks, more \in BOOLEAN : Read(w, more)
    \/ \E w \in Socks, a \in Addrs : Send(w, a)
    \/ \E w \in Socks : Split(w)
    \/ \E w \in Socks : DropHalves(w)
    \/ \E w \in Socks : Drop(w)

Spec == Init /\ [][Next]_vars

\* Pool sharing: every wrapper, every constructor and every way a wrapper
\* ends; no stream socket is closed, aborted or carries data.
NextPool ==
    \/ \E w \in Socks, a \in Addrs : TcpConnect(w, a)
    \/ \E w \in Socks : ConnectDone(w)
    \/ \E w \in Socks : ConnectFail(w)
    \/ \E a \in Addrs : TcpBind(a)
    \/ \E w \in Socks, a \in Addrs : TcpAccept(w, a)
    \/ \E w \in Socks : AcceptDone(w)
    \/ \E w \in Socks : AcceptFail(w)
    \/ \E w \in Socks, a \in Addrs, ok \in BOOLEAN : UdpBind(w, a, ok)
    \/ \E w \in Socks : RawBind(w)
    \/ \E w \in Socks : Drop(w)

SpecPool == Init /\ [][NextPool]_vars

\* One wrapper at a time (the first one, of any kind), with every operation
\* on it and every behaviour of the engine and the peer.
FirstSock == CHOOSE w \in Socks : \A v \in Socks : w <= v

NextSock ==
    \/ \E a \in Addrs : TcpConnect(FirstSock, a)
    \/ ConnectDone(FirstSock)
    \/ ConnectFail(FirstSock)
    \/ \E a \in Addrs : TcpBind(a)
    \/ \E a \in Addrs : TcpAccept(FirstSock, a)
    \/ AcceptDone(FirstSock)
    \/ AcceptFail(FirstSock)
    \/ \E a \in Addrs, ok \in BOOLEAN : UdpBind(FirstSock, a, ok)
    \/ RawBind(FirstSock)
    \/ \E what \in {"Read", "Write", "Both"} : Close(FirstSock, what)
    \/ Abort(FirstSock)
    \/ FlushDone(FirstSock)
    \/ FlushFail(FirstSock)
    \/ \E more \in BOOLEAN : DiscardRead(FirstSock, more)
    \/ DiscardFail(FirstSock)
    \/ Write(FirstSock)
    \/ EngineTransmit(FirstSock)
    \/ PeerSend(FirstSock)
    \/ PeerFin(FirstSock)
    \/ \E more \in BOOLEAN : Read(FirstSock, more)
    \/ \E a \in Addrs : Send(FirstSock, a)
    \/ Split(FirstSock)
    \/ DropHalves(FirstSock)
    \/ Drop(FirstSock)

SpecSock == Init /\ [][NextSock]_vars

\* The same wrapper under an executor that polls a woken future and an engine
\* that ends every flush: a pending flush eventually completes or fails, and
\* a pending read of discard_all_data for which data or the end-of-stream is
\* available eventually returns.  Nothing is assumed about the peer and
\* about read failures.
FairSock ==
    /\ WF_vars(FlushDone(FirstSock) \/ FlushFail(FirstSock))
    /\ WF_vars(\E more \in BOOLEAN : DiscardRead(FirstSock, more))

SpecLive == Init /\ [][NextSock]_vars /\ FairSock

\* A direct call of Pool::alloc (through SealedDynPool::alloc), by a caller
\* that manages the token itself.
AllocCall(k) ==
    LET a == PoolAlloc(used[k]) IN
    /\ ret.res # "panic"
    /\ used' = [used EXCEPT ![k] = a.used]
    /\ run' = [run EXCEPT ![k] = RunAlloc(@, a.slot)]
    /\ given' = [given EXCEPT ![k] = IF a.slot = NoSlot THEN @ ELSE GiveSlot(@, a.slot)]
    /\ recov' = IF a.slot = NoSlot THEN RecovFail(recov, k) ELSE RecovAlloc(recov, k, a.slot)
    /\ ret' = Ret("alloc", 0, k, IF a.slot = NoSlot THEN "None" ELSE "Some")
    /\ trip' = IF a.slot = NoSlot THEN trip
               ELSE TripAlloc(trip, k, a.slot, SocketBuffers(k, a.slot))
    /\ UNCHANGED <<pc, kind, tok, eng, txq, rx, fl, rd, frees, calls, halves>>

\* A direct call of Pool::free (unsafe fn) with a pointer at offset n from
\* Pool::data; for a pointer into another object the offset is whatever
\* offset_from yields.  A failed assertion panics; otherwise the flag of slot
\* n is cleared and free returns.
FreeCall(k, n) ==
    /\ ret.res # "panic"
    /\ IF PoolFreeIndexOk(n)
       THEN /\ used' = [used EXCEPT ![k] = PoolFree(@, n)]
            /\ run' = [run EXCEPT ![k] = RunFree(PoolFree(used[k], n))]
            /\ given' = [given EXCEPT ![k] = TakeSlot(@, n, <<"free">>)]
            /\ recov' = RecovFree(recov, k, n, <<"free">>)
            /\ ret' = Ret("free", 0, k, "Ok")
            /\ trip' = TripFree(trip, k, n)
       ELSE /\ ret' = Ret("free", 0, k, "panic")
            /\ UNCHANGED <<used, run, given, recov, trip>>
    /\ UNCHANGED <<pc, kind, tok, eng, txq, rx, fl, rd, frees, calls, halves>>

\* Offsets a pointer passed to free may have: the slots of the pool, and one
\* position before and after the storage array.
Offsets == -1 .. N

\* The pool used directly, without the wrappers.
NextRaw ==
    \/ \E k \in Kinds : AllocCall(k)
    \/ \E k \in Kinds, n \in Offsets : FreeCall(k, n)

SpecRaw == Init /\ [][NextRaw]_vars

(***************************************************************************)
(* Pool::alloc and Pool::free statement by statement, one task per wrapper *)
(* id, under the cooperative scheduler: a task that has started to run     *)
(* keeps running until it reaches a suspension point.                      *)
(***************************************************************************)

\* A scheduler that may switch tasks between the test and the mark of alloc.
SuspendPointsAtMark == {"mark"}

\* The positions inside alloc and free at which the running task can be
\* suspended: none (neither is an async fn, neither contains an .await).
SuspendPoints == {}

\* Task w may run: no other task is in the middle of alloc or free.
Scheduled(w) ==
    \A v \in Socks \ {w} : pc[v] \in Inside => pc[v] \in SuspendPoints

\* A constructor of kind k calls alloc: `for n in 0..N` starts with n = 0
\* (tok[w] holds n during the scan).
AllocEnter(w, k) ==
    /\ Scheduled(w)
    /\ Fresh(w)
    /\ pc' = [pc EXCEPT ![w] = "scan"]
    /\ kind' = [kind EXCEPT ![w] = k]
    /\ tok' = [tok EXCEPT ![w] = 0]
    /\ UNCHANGED <<used, given, recov, trip, halves, eng, txq, rx, fl, rd, frees, calls, run, ret>>

\* `if !self.used[n].get()`, the next n, or the end of the loop (None: the
\* constructor returns NoBuffers).
AllocTest(w) ==
    /\ Scheduled(w)
    /\ pc[w] = "scan"
    /\ IF tok[w] >= N
       THEN /\ pc' = [pc EXCEPT ![w] = "none"]
            /\ tok' = [tok EXCEPT ![w] = NoTok]
            /\ ret' = Ret("alloc", 0, kind[w], "NoBuffers")
            /\ recov' = RecovFail(recov, kind[w])
       ELSE IF ~used[kind[w]][tok[w]]
       THEN /\ pc' = [pc EXCEPT ![w] = "mark"]
            /\ UNCHANGED <<tok, ret, recov, trip>>
       ELSE /\ tok' = [tok EXCEPT ![w] = @ + 1]
            /\ UNCHANGED <<pc, ret, recov, trip>>
    /\ UNCHANGED <<used, given, halves, trip, kind, eng, txq, rx, fl, rd, frees, calls, run>>

\* `self.used[n].set(true); return Some(p)`: the constructor builds the
\* wrapper and reaches its first suspension point (or returns the wrapper).
AllocMark(w) ==
    /\ Scheduled(w)
    /\ pc[w] = "mark"
    /\ Created(w, kind[w], tok[w], [used[kind[w]] EXCEPT ![tok[w]] = TRUE],
               IF kind[w] = "tcp" THEN "connecting" ELSE "open")
    /\ UNCHANGED ret

\* Drop::drop of a live wrapper starts (the task was at a suspension point
\* or held the wrapper).
FreeEnter(w) ==
    /\ Scheduled(w)
    /\ pc[w] \in Live
    /\ pc' = [pc EXCEPT ![w] = "freeing"]
    /\ UNCHANGED <<used, given, recov, trip, halves, kind, tok, eng, txq, rx, fl, rd, frees, calls, run, ret>>

\* Pool::free clears the flag; drop returns.
FreeClear(w) ==
    /\ Scheduled(w)
    /\ pc[w] = "freeing"
    /\ Teardown(w, kind[w], tok[w], used[kind[w]], run[kind[w]], given[kind[w]], recov, frees[w])
    /\ ret' = Ret("drop", w, kind[w], "-")

NextTask ==
    \/ \E w \in Socks, k \in Kinds : AllocEnter(w, k)
    \/ \E w \in Socks : AllocTest(w)
    \/ \E w \in Socks : AllocMark(w)
    \/ \E w \in Socks : FreeEnter(w)
    \/ \E w \in Socks : FreeClear(w)

SpecTask == Init /\ [][NextTask]_vars

\* Ownership of the tokens of one pool: stream sockets only, every wrapper
\* with every operation that takes, keeps or returns a token or borrows the
\* wrapper (connect, close, abort, split, drop).  No data is written or
\* received; a close or abort in flight completes on the first wrapper only
\* (on the others it stays suspended until the wrapper is dropped).
NextOwn ==
    \/ \E w \in Socks, a \in Addrs : TcpConnect(w, a)
    \/ \E w \in Socks : ConnectDone(w)
    \/ \E w \in Socks : ConnectFail(w)
    \/ \E w \in Socks, what \in {"Read", "Write", "Both"} : Close(w, what)
    \/ \E w \in Socks : Abort(w)
    \/ FlushDone(FirstSock)
    \/ FlushFail(FirstSock)
    \/ DiscardFail(FirstSock)
    \/ \E w \in Socks : Split(w)
    \/ \E w \in Socks : DropHalves(w)
    \/ \E w \in Socks : Drop(w)

SpecOwn == Init /\ [][NextOwn]_vars

TypeOK ==
    /\ used \in [Kinds -> [Slots -> BOOLEAN]]
    /\ pc \in [Socks -> PcSet]
    /\ tok \in [Socks -> Slots \cup {NoTok}]
    /\ eng \in [Socks -> {"none", "open", "closed", "aborted"}]
    /\ txq \in [Socks -> BOOLEAN]
    /\ rx \in [Socks -> {"none", "data", "eof"}]
    /\ fl \in [Socks -> {"-", "pend", "ok", "err"}]
    /\ rd \in [Socks -> {"-", "pend", "ok", "err"}]
    /\ given \in [Kinds -> [Slots -> 0 .. 2]]
    /\ halves \in [Socks -> BOOLEAN]
    /\ recov.st \in {"-", "failed", "freed", "ok", "bad"}
    /\ trip.st \in {"-", "held", "freed", "again"}
    /\ trip.n \in Slots \cup {NoSlot}


(***************************************************************************)
(* Properties                                                              *)
(***************************************************************************)

Owners(k, n) == {w \in Socks : pc[w] \in Live /\ kind[w] = k /\ tok[w] = n}

\* C1: no two live wrappers hold the same slot of a pool, and every used
\* slot is owned by exactly one live wrapper.
C1_ExclusiveOwnership ==
    /\ \A w1, w2 \in Socks :
         (w1 # w2 /\ pc[w1] \in Live /\ pc[w2] \in Live /\ kind[w1] = kind[w2])
            => tok[w1] # tok[w2]
    /\ \A k \in Kinds, n \in Slots : used[k][n] => Cardinality(Owners(k, n)) = 1

C1_Witness ==
    \E w1, w2 \in Socks :
        /\ w1 # w2
        /\ pc[w1] \in Live /\ pc[w2] \in Live
        /\ kind[w1] = "tcp" /\ kind[w2] = "tcp"
        /\ tok[w1] # tok[w2]

\* C2: starting from an all-free pool, with no free in between, the first N
\* allocs succeed with pairwise distinct tokens and the next one returns
\* None; never more than N slots are used.
C2_AllocUntilExhausted ==
    \A k \in Kinds :
        /\ UsedCount(k) <= N
        /\ run[k].ok =>
             \A i \in 1 .. Len(run[k].seq) :
                 IF i <= N
                 THEN /\ run[k].seq[i] \in Slots
                      /\ \A j \in 1 .. (i - 1) : run[k].seq[j] # run[k].seq[i]
                 ELSE run[k].seq[i] = NoSlot

C2_Witness ==
    \E k \in Kinds :
        /\ run[k].ok
        /\ Len(run[k].seq) = N + 1
        /\ run[k].seq[N + 1] = NoSlot

\* C3: the token of a wrapper is passed to free exactly once in the life of
\* the wrapper, by its drop: never while the wrapper is live, once when it is
\* dropped.
C3_FreedOnceAtDrop ==
    \A w \in Socks :
        /\ pc[w] \in Live => frees[w] = 0 /\ calls[w] = <<>>
        /\ pc[w] = "dropped" => frees[w] = 1 /\ FreeCalls(calls[w]) = 1

C3_Witness ==
    \E w \in Socks :
        /\ pc[w] = "dropped" /\ kind[w] = "tcp"
        /\ ret.op = "drop" /\ ret.w = w
        /\ frees[w] = 1

\* C4: whenever a live stream socket is torn down, the engine holds no
\* queued, unflushed transmit data of it at that moment (flush precedes free).
C4_FlushedBeforeFree ==
    [][\A w \in Socks :
          (kind[w] = "tcp" /\ pc[w] \in Live /\ pc'[w] = "dropped") => ~txq[w]]_vars

\* C5: whenever a stream socket that was aborted is torn down, its transmit
\* side is quiescent at that moment.
C5_AbortThenFreeQuiescent ==
    [][\A w \in Socks :
          (kind[w] = "tcp" /\ eng[w] = "aborted" /\ pc[w] \in Live /\ pc'[w] = "dropped")
             => ~txq[w]]_vars

\* C6: Close-Both returns only when both the flush and the discard have
\* finished (each with success or with an error); while one of them is still
\* pending the operation stays suspended.
C6_CloseBothWaitsForBoth ==
    /\ ret.op = "closeBoth" => ret.fl \in {"ok", "err"} /\ ret.rd \in {"ok", "err"}
    /\ \A w \in Socks : pc[w] = "closeBoth" => fl[w] = "pend" \/ rd[w] = "pend"

C6_Witness ==
    \E w \in Socks : pc[w] = "closeBoth" /\ fl[w] = "err" /\ rd[w] = "pend"

\* C7: the result of Close-Both: Ok when both succeed, the flush error when
\* the flush fails (whatever the discard did), the read error when only the
\* discard fails.
C7_CloseBothResult ==
    ret.op = "closeBoth" =>
        /\ (ret.fl = "ok" /\ ret.rd = "ok") => ret.res = "Ok"
        /\ (ret.fl = "err" /\ ret.rd = "ok") => ret.res = "FlushErr"
        /\ (ret.fl = "ok" /\ ret.rd = "err") => ret.res = "ReadErr"
        /\ (ret.fl = "err" /\ ret.rd = "err") => ret.res = "FlushErr"

C7_Witness ==
    ret.op = "closeBoth" /\ ret.fl = "err" /\ ret.rd = "err" /\ ret.res = "FlushErr"

\* C8 as stated: the teardown of every wrapper, of every kind, requests the
\* engine close and then frees the token.
C8_CloseThenFreeAllKinds ==
    \A w \in Socks : pc[w] = "dropped" => calls[w] = <<"close", "free">>

\* C8 as amended: the teardown of a TCP or UDP wrapper requests the engine
\* close and then frees the token; the teardown of a raw wrapper frees the
\* token without any engine close request.
C8_TeardownOrder ==
    \A w \in Socks : pc[w] = "dropped" =>
        /\ kind[w] \in {"tcp", "udp"} => calls[w] = <<"close", "free">>
        /\ kind[w] = "raw" => calls[w] = <<"free">>

C8_Witness ==
    /\ \E w \in Socks : pc[w] = "dropped" /\ kind[w] = "udp" /\ calls[w] = <<"close", "free">>
    /\ ret.op = "drop"

\* A constructor of kind k runs (up to its first suspension point).
Construct(k) ==
    CASE k = "tcp" -> \E w \in Socks, a \in Addrs : TcpConnect(w, a) \/ TcpAccept(w, a)
      [] k = "udp" -> \E w \in Socks, a \in Addrs, ok \in BOOLEAN : UdpBind(w, a, ok)
      [] OTHER -> \E w \in Socks : RawBind(w)

\* C9: a constructor called on an exhausted pool fails with NoBuffers, builds
\* no engine socket and changes no used flag (and no wrapper).
C9_ExhaustedConstructor ==
    [][\A k \in Kinds :
          (Exhausted(k) /\ Construct(k)) =>
              /\ ret'.res = "NoBuffers" /\ ret'.k = k
              /\ used' = used
              /\ eng' = eng
              /\ pc' = pc /\ tok' = tok]_vars

C9_Witness ==
    /\ ret.res = "NoBuffers"
    /\ Exhausted(ret.k)
    /\ \A w \in Socks : pc[w] \in Live => eng[w] # "none"

C11_BindUnsupportedFamily ==
    [][\A a \in Addrs :
          (/\ ~ToEmbAddr(a)
           /\ (TcpBind(a) \/ \E w \in Socks, ok \in BOOLEAN : UdpBind(w, a, ok)))
             => /\ ret'.res = "UnsupportedProto"
                /\ ErrorKind(ret'.res) = "InvalidInput"
                /\ used' = used]_vars

\* C12: a free makes exactly the slot of its token available.  Between two
\* frees of a slot at most one alloc returns it (given counts the allocs that
\* returned the slot since it was last freed); a slot is unavailable exactly
\* while such an alloc is outstanding; and the slot an alloc returned is held
\* by exactly one live wrapper, so no alloc returns the slot of a live token.
C12_FreeMakesSlotAvailableOnce ==
    \A k \in Kinds, n \in Slots :
        /\ given[k][n] <= 1
        /\ used[k][n] <=> given[k][n] = 1
        /\ given[k][n] = 1 => Cardinality(Owners(k, n)) = 1
        /\ given[k][n] = 0 => Owners(k, n) = {}

\* Slot 0 was freed by the drop of one wrapper and handed out again, once, to
\* another wrapper that is live.
C12_Witness ==
    \E w1, w2 \in Socks :
        /\ pc[w1] = "dropped" /\ pc[w2] \in Live
        /\ kind[w1] = kind[w2] /\ tok[w1] = tok[w2]
        /\ frees[w1] = 1
        /\ given[kind[w2]][tok[w2]] = 1

\* C13: allocation is first-fit.  Whenever a constructor hands a slot to a
\* new wrapper, that slot was free, every slot of the pool with a smaller
\* index was used, and the used flag of that slot is the only one that
\* changed.
C13_FirstFit ==
    [][\A w \in Socks :
          (Fresh(w) /\ pc'[w] \in Live) =>
              /\ ~used[kind'[w]][tok'[w]]
              /\ \A n \in Slots : n < tok'[w] => used[kind'[w]][n]
              /\ used' = [used EXCEPT ![kind'[w]][tok'[w]] = TRUE]]_vars

\* A gets slot 0, B gets slot 1, A is dropped, the next bind gets slot 0
\* again: the last call returned slot 0 while slot 1 is held, after a free.
C13_Witness ==
    /\ ret.op = "bind" /\ ret.k = "udp" /\ ret.res = "Ok"
    /\ ret.w \in Socks
    /\ pc[ret.w] \in Live /\ tok[ret.w] = 0
    /\ used["udp"][1]
    /\ ~run["udp"].ok

\* C14: every free made by a wrapper passes the token of a slot that is used
\* and owned by that wrapper alone, and is the only free of the wrapper.  A
\* live wrapper that is dropped (after any constructions, splits, closes and
\* aborts) frees its own used slot, once, and clears that flag only; a
\* constructor that fails before its first suspension point frees the slot
\* it has just taken, which was free and had no owner before the call.
C14_FreeOwnTokenOnly ==
    [][\A w \in Socks :
          /\ (pc[w] \in Live /\ pc'[w] = "dropped") =>
                /\ used[kind[w]][tok[w]]
                /\ Owners(kind[w], tok[w]) = {w}
                /\ frees[w] = 0 /\ frees'[w] = 1
                /\ used' = [used EXCEPT ![kind[w]][tok[w]] = FALSE]
          /\ (/\ Fresh(w) /\ pc'[w] = "dropped" /\ ret'.w = w
              /\ \E a \in Addrs :
                    \/ TcpConnect(w, a) \/ TcpAccept(w, a)
                    \/ \E ok \in BOOLEAN : UdpBind(w, a, ok)) =>
                /\ ~used[kind'[w]][tok'[w]]
                /\ Owners(kind'[w], tok'[w]) = {}
                /\ frees'[w] = 1
                /\ used' = used
          /\ (pc[w] \in Live /\ pc'[w] \in Live) =>
                /\ frees'[w] = 0
                /\ tok'[w] = tok[w]
                /\ used'[kind[w]][tok[w]]]_vars

\* A stream socket is dropped and frees its slot while another stream socket
\* of the same pool, with a close or an abort in flight, keeps its own.
C14_Witness ==
    \E w1, w2 \in Socks :
        /\ pc[w1] = "dropped" /\ kind[w1] = "tcp" /\ frees[w1] = 1
        /\ ret.op = "drop" /\ ret.w = w1
        /\ pc[w2] \in {"closeBoth", "abort"} /\ kind[w2] = "tcp"
        /\ used["tcp"][tok[w2]]

\* C15: a free of a token that is not allocated at the time of the call (it
\* was freed already, or never returned by this pool, or lies outside the
\* storage array) panics and changes no used flag.
C15_InvalidFreeIsFatal ==
    [][\A k \in Kinds, n \in Offsets :
          (FreeCall(k, n) /\ (n \notin Slots \/ given[k][n] = 0)) =>
              ret'.res = "panic" /\ used' = used]_vars

\* C16: splitting a wrapper, an operation on its halves (write, read, send)
\* and dropping the halves leave every used flag, every token and every free
\* count as they were; while the halves of a live wrapper are in use its slot
\* stays used and its token is not freed; the flag of the slot of a live
\* wrapper is cleared, and its token freed, only in the step that drops the
\* wrapper.
C16_HalvesKeepToken ==
    [][\A w \in Socks :
          /\ (\/ Split(w)
              \/ DropHalves(w)
              \/ /\ halves[w]
                 /\ \/ Write(w)
                    \/ \E more \in BOOLEAN : Read(w, more)
                    \/ \E a \in Addrs : Send(w, a)) =>
                used' = used /\ tok' = tok /\ frees' = frees /\ calls' = calls
          /\ (halves[w] /\ pc'[w] \in Live) =>
                used'[kind[w]][tok[w]] /\ tok'[w] = tok[w] /\ frees'[w] = 0
          /\ (pc[w] \in Live /\ (frees'[w] # frees[w] \/ ~used'[kind[w]][tok[w]])) =>
                pc'[w] = "dropped"]_vars

\* The halves of a UDP socket are in use, a packet has been sent, and the
\* slot of the socket is still used and has not been freed.
C16_Witness ==
    \E w \in Socks :
        /\ halves[w] /\ kind[w] = "udp" /\ txq[w]
        /\ used["udp"][tok[w]] /\ frees[w] = 0

\* C17: at most one task is inside alloc or free at a time (each runs as
\* one uninterrupted step of the scheduler), no two live wrappers of a pool
\* hold the same slot, and whenever no task is inside alloc or free the
\* number of used flags of a pool equals the number of its live wrappers
\* (no update of a flag is lost).
C17_AllocFreeUninterrupted ==
    /\ Cardinality({w \in Socks : pc[w] \in Inside}) <= 1
    /\ \A w1, w2 \in Socks :
         (w1 # w2 /\ pc[w1] \in Live /\ pc[w2] \in Live /\ kind[w1] = kind[w2])
            => tok[w1] # tok[w2]
    /\ (\A w \in Socks : pc[w] \notin Inside) =>
          \A k \in Kinds :
              UsedCount(k) = Cardinality({w \in Socks : pc[w] \in Live /\ kind[w] = k})

\* One task is between the test and the mark of a slot while another task,
\* suspended in its connect, holds a different slot of the same pool.
C17_Witness ==
    \E w1, w2 \in Socks :
        /\ pc[w1] = "mark" /\ pc[w2] = "connecting"
        /\ kind[w1] = "tcp" /\ kind[w2] = "tcp"
        /\ tok[w1] # tok[w2]
        /\ used["tcp"][tok[w2]] /\ ~used["tcp"][tok[w1]]

\* C18: the drop of a wrapper is enabled in every live state of the wrapper
\* (suspended in connect, accept, close or abort, or idle), and a wrapper
\* leaves its live states only by the one step that ends with the slot free,
\* the token freed once and no wait left pending.
C18_DropNeverWaits ==
    [][\A w \in Socks :
          /\ pc[w] \in Live => ENABLED Drop(w)
          /\ (pc[w] \in Live /\ pc'[w] \notin Live) =>
                /\ pc'[w] = "dropped"
                /\ ~used'[kind[w]][tok[w]]
                /\ frees'[w] = 1
                /\ fl'[w] = "-" /\ rd'[w] = "-"
                /\ eng'[w] = "none"]_vars

\* A socket was dropped while its Close-Both was suspended with the flush
\* and the discard both pending, and its slot is free.
C18_Witness ==
    /\ ret.op = "drop" /\ ret.k = "tcp"
    /\ ret.fl = "pend" /\ ret.rd = "pend"
    /\ ret.w \in Socks
    /\ pc[ret.w] = "dropped"
    /\ ~used["tcp"][tok[ret.w]]

\* C19: exhaustion is recoverable.  After a constructor has failed with
\* NoBuffers on an exhausted pool and one live wrapper of that pool has then
\* been dropped, the next constructor on the pool does not fail with
\* NoBuffers and is handed the slot that was just freed (recov never records
\* a next alloc that failed or returned another slot), and in the state
\* between the drop and that constructor the freed slot is the one free slot.
C19_ExhaustionRecoverable ==
    /\ recov.st # "bad"
    /\ recov.st = "freed" =>
          /\ UsedCount(recov.k) = N - 1
          /\ ~used[recov.k][recov.slot]
          /\ PoolAlloc(used[recov.k]).slot = recov.slot
    /\ recov.st = "failed" => Exhausted(recov.k)

\* A connect failed with NoBuffers, a wrapper was dropped, and the next
\* connect got the freed slot: it is suspended in the engine connect.
C19_Witness ==
    /\ recov.st = "ok" /\ recov.k = "tcp"
    /\ \E w \in Socks :
          /\ pc[w] = "connecting" /\ kind[w] = "tcp"
          /\ tok[w] = recov.slot
          /\ used["tcp"][tok[w]]

\* C20: Close-Write.  While the operation waits for the flush the half-close
\* signal has already been sent to the engine; it returns only when the
\* flush has finished, Ok exactly when the flush succeeded (the engine then
\* holds no queued transmit data of the socket) and the flush error when the
\* flush failed.
C20_CloseWrite ==
    /\ \A w \in Socks :
          pc[w] = "closeWrite" => eng[w] # "open" /\ fl[w] = "pend" /\ rd[w] = "-"
    /\ ret.op = "closeWrite" =>
          /\ ret.fl \in {"ok", "err"}
          /\ ret.res = "Ok" <=> ret.fl = "ok"
          /\ ret.fl = "err" => ret.res = "FlushErr"
          /\ ret.res = "Ok" => ~txq[ret.w] /\ eng[ret.w] # "open"

\* A Close-Write returned Ok after its flush completed; the connection is
\* half-closed and the engine holds no queued transmit data.
C20_Witness ==
    /\ ret.op = "closeWrite" /\ ret.res = "Ok" /\ ret.fl = "ok"
    /\ pc[ret.w] = "open" /\ eng[ret.w] = "closed" /\ ~txq[ret.w]

\* C21: Close-Read.  While it is suspended its discard is pending (reads of
\* pending data are discarded and the loop goes on); it returns Ok only in
\* the step in which a read finds the peer's end-of-stream (zero length),
\* and it returns the read error in the step in which a read fails.
C21_CloseRead ==
    [][\A w \in Socks :
          /\ (pc[w] = "closeRead" /\ pc'[w] = "closeRead") =>
                rd'[w] = "pend" /\ fl'[w] = "-"
          /\ (pc[w] = "closeRead" /\ pc'[w] = "open") =>
                /\ ret'.op = "closeRead" /\ ret'.w = w
                /\ \/ ret'.res = "Ok" /\ ret'.rd = "ok" /\ rx[w] = "eof"
                   \/ ret'.res = "ReadErr" /\ ret'.rd = "err"]_vars

\* A Close-Read returned Ok with the peer's end-of-stream reached.
C21_Witness ==
    /\ ret.op = "closeRead" /\ ret.res = "Ok" /\ ret.rd = "ok"
    /\ pc[ret.w] = "open" /\ rx[ret.w] = "eof"

\* C22: abort.  While it waits for the flush the engine has already torn
\* the connection down; it returns only when the flush wait has finished,
\* Ok exactly when the wait succeeded (the transmit side is then quiescent)
\* and the flush error when the wait failed.
C22_AbortThenFlush ==
    /\ \A w \in Socks :
          pc[w] = "abort" => eng[w] = "aborted" /\ fl[w] = "pend" /\ rd[w] = "-"
    /\ ret.op = "abort" =>
          /\ ret.fl \in {"ok", "err"}
          /\ ret.res = "Ok" <=> ret.fl = "ok"
          /\ ret.fl = "err" => ret.res = "FlushErr"
          /\ ret.res = "Ok" => ~txq[ret.w] /\ eng[ret.w] = "aborted"

\* An abort returned the error of its failed flush wait while the engine
\* still holds queued transmit data of the torn-down connection.
C22_Witness ==
    /\ ret.op = "abort" /\ ret.res = "FlushErr" /\ ret.fl = "err"
    /\ pc[ret.w] = "open" /\ eng[ret.w] = "aborted" /\ txq[ret.w]

C24_UnsupportedFamilyIsNone ==
    [][\A a \in Addrs :
          a.fam \notin ProtoFeatures =>
              /\ ~ToEmbAddr(a) /\ ~ToEmbSocket(a) /\ ~ToEmbBindSocket(a)
              /\ \A w \in Socks :
                    /\ (~Exhausted("tcp") /\ (TcpConnect(w, a) \/ TcpAccept(w, a)))
                          => ret'.res = "UnsupportedProto" /\ ret'.w = w
                    /\ (~Exhausted("udp") /\ \E ok \in BOOLEAN : UdpBind(w, a, ok))
                          => ret'.res = "UnsupportedProto" /\ ret'.w = w]_vars

\* C25: Pool::free with a token whose computed slot index is negative or
\* >= N fails an assertion (panic) and changes no used flag; with an index in
\* [0, N) it returns and clears exactly that slot's used flag, of that pool.
C25_FreeIndexRange ==
    [][\A k \in Kinds, n \in Offsets :
          FreeCall(k, n) =>
              IF n < 0 \/ n >= N
              THEN ret'.op = "free" /\ ret'.res = "panic" /\ used' = used
              ELSE /\ ret'.op = "free" /\ ret'.res = "Ok"
                   /\ used' = [used EXCEPT ![k][n] = FALSE]]_vars

\* A free one past the storage array panicked while slots of that pool are in
\* use; the flags are as the allocations left them.
C25_Witness ==
    /\ ret.op = "free" /\ ret.res = "panic"
    /\ used[ret.k][0] /\ ~used[ret.k][N - 1]
    /\ given[ret.k][0] = 1

\* The live wrappers created from pool k, those suspended inside connect or
\* accept included.
LiveOf(k) == {w \in Socks : pc[w] \in Live /\ kind[w] = k}

\* C26: in every reachable state the number of used slots of a pool equals
\* the number of live wrappers created from it (a socket inside a suspended
\* connect or accept counts); once every wrapper has been dropped all N slots
\* of every pool are free.
C26_UsedCountIsLiveCount ==
    /\ \A k \in Kinds : UsedCount(k) = Cardinality(LiveOf(k))
    /\ (\A w \in Socks : pc[w] \notin Live) =>
          \A k \in Kinds, n \in Slots : ~used[k][n]

\* Every wrapper was created and dropped, a raw socket and a TCP socket among
\* them, the last one out of a pending connect; both pools are free again.
C26_Witness ==
    /\ \A w \in Socks : pc[w] = "dropped" /\ frees[w] >= 1
    /\ \E w \in Socks : kind[w] = "raw"
    /\ \E w \in Socks : kind[w] = "tcp"
    /\ ret.op = "connect" /\ ret.res = "Connect"
    /\ \A k \in Kinds : UsedCount(k) = 0

\* The suspended positions of close (any direction) and abort.
ClosingOps == {"closeRead", "closeWrite", "closeBoth", "abort"}

\* C27: close (any direction) and abort of a stream socket never free the
\* token.  No step of close or abort (its start, a completion or failure of
\* its flush or discard) changes a used flag, a token or a free count; when
\* the operation returns, with Ok or with an error, the slot of the socket is
\* marked used and was never freed; and the flag of a live stream socket is
\* cleared only by the step that drops the wrapper.
C27_CloseAbortKeepToken ==
    [][\A w \in Socks :
          /\ (\/ \E what \in {"Read", "Write", "Both"} : Close(w, what)
              \/ Abort(w)
              \/ FlushDone(w) \/ FlushFail(w)
              \/ \E more \in BOOLEAN : DiscardRead(w, more)
              \/ DiscardFail(w)) =>
                used' = used /\ tok' = tok /\ frees' = frees /\ calls' = calls
          /\ (pc[w] \in ClosingOps /\ pc'[w] = "open") =>
                /\ ret'.op = pc[w] /\ ret'.w = w
                /\ ret'.res \in {"Ok", "FlushErr", "ReadErr"}
                /\ used'["tcp"][tok'[w]] /\ frees'[w] = 0
          /\ (kind[w] = "tcp" /\ pc[w] \in Live /\ ~used'["tcp"][tok[w]]) =>
                pc'[w] = "dropped"
          /\ (ret.op \in ClosingOps /\ ret.w = w /\ pc[w] \in Live /\ pc'[w] \in Live) =>
                used'["tcp"][tok[w]] /\ frees'[w] = 0]_vars

\* A Close-Both returned the read error (the flush had succeeded); the
\* socket is open, its slot is still marked used and was never freed.
C27_Witness ==
    /\ ret.op = "closeBoth" /\ ret.res = "ReadErr" /\ ret.fl = "ok"
    /\ pc[ret.w] = "open" /\ kind[ret.w] = "tcp"
    /\ used["tcp"][tok[ret.w]] /\ frees[ret.w] = 0

\* The stream sockets suspended inside connect or accept.
Pending == {w \in Socks : kind[w] = "tcp" /\ pc[w] \in {"connecting", "accepting"}}

\* C28: a TCP accept or connect holds its slot for the whole time it is
\* pending: the slot was marked before the operation suspended and is
\* released only by the step in which the socket is dropped (after the
\* operation failed, or with the cancelled future, or after it completed).
\* With N operations pending on a pool of capacity N every further connect or
\* accept fails with NoBuffers and changes nothing.
C28_PendingHoldsSlot ==
    [][/\ \A w \in Pending :
             /\ used["tcp"][tok[w]]
             /\ Owners("tcp", tok[w]) = {w}
             /\ pc'[w] \in Live => used'["tcp"][tok[w]] /\ tok'[w] = tok[w]
             /\ ~used'["tcp"][tok[w]] => pc'[w] = "dropped"
       /\ Cardinality(Pending) = N =>
             \A w \in Socks, a \in Addrs :
                 (TcpConnect(w, a) \/ TcpAccept(w, a)) =>
                     /\ ret'.res = "NoBuffers"
                     /\ used' = used /\ pc' = pc /\ tok' = tok]_vars

\* N accepts are pending on the TCP pool of capacity N, and a further connect
\* has failed with NoBuffers.
C28_Witness ==
    /\ \A w \in Socks : kind[w] = "tcp" /\ pc[w] = "accepting"
    /\ Cardinality(Pending) = N
    /\ Exhausted("tcp")
    /\ ret.op = "connect" /\ ret.res = "NoBuffers"

\* C29: allocation precedes address validation.  TCP connect, TCP accept and
\* UDP bind called with an address of a family that is not compiled in return
\* NoBuffers on an exhausted pool, leaving it as it was; on a pool with a
\* free slot they return UnsupportedProto after allocating the first free
\* slot and releasing it again (one free of that token; the flags end as
\* they began).
C29_AllocBeforeValidation ==
    [][\A a \in Addrs, w \in Socks :
          a.fam \notin ProtoFeatures =>
              \A k \in {"tcp", "udp"} :
                  (IF k = "tcp"
                   THEN TcpConnect(w, a) \/ TcpAccept(w, a)
                   ELSE \E ok \in BOOLEAN : UdpBind(w, a, ok)) =>
                      IF Exhausted(k)
                      THEN /\ ret'.res = "NoBuffers"
                           /\ used' = used /\ pc' = pc /\ frees' = frees
                      ELSE /\ ret'.res = "UnsupportedProto" /\ ret'.w = w
                           /\ used' = used
                           /\ pc'[w] = "dropped" /\ kind'[w] = k
                           /\ tok'[w] = AllocScan(used[k], 0)
                           /\ frees'[w] = 1]_vars

\* C30: close issues the engine half-close signal exactly when the direction
\* is Write or Both, and before its waits begin: the step that starts a
\* Close-Write or Close-Both half-closes an open connection, so no flush or
\* discard of such a close is ever pending on a connection that is still
\* open in both directions; the step that starts a Close-Read, and every
\* later step of a Close-Read, leaves the state of the connection as it was;
\* and a connection becomes half-closed in no other step.
C30_HalfCloseSignal ==
    [][\A w \in Socks :
          /\ (pc[w] = "open" /\ pc'[w] \in {"closeWrite", "closeBoth"}) =>
                /\ eng'[w] = EngineClose(eng[w]) /\ eng'[w] # "open"
                /\ fl'[w] = "pend"
                /\ rd'[w] = (IF pc'[w] = "closeBoth" THEN "pend" ELSE "-")
          /\ (pc'[w] \in {"closeWrite", "closeBoth"} /\ (fl'[w] = "pend" \/ rd'[w] = "pend")) =>
                eng'[w] # "open"
          /\ (pc[w] = "open" /\ pc'[w] = "closeRead") =>
                eng'[w] = eng[w] /\ rd'[w] = "pend" /\ fl'[w] = "-"
          /\ (pc[w] = "closeRead" /\ pc'[w] \in {"closeRead", "open"}) =>
                eng'[w] = eng[w]
          /\ (eng[w] = "open" /\ eng'[w] = "closed") =>
                pc[w] = "open" /\ pc'[w] \in {"closeWrite", "closeBoth"}]_vars

\* A Close-Read has returned Ok without half-closing the connection; the
\* Close-Both that followed has sent the signal and both its waits are
\* pending, with data still queued for transmission.
C30_Witness ==
    /\ ret.op = "closeRead" /\ ret.res = "Ok"
    /\ pc[ret.w] = "closeBoth" /\ eng[ret.w] = "closed"
    /\ fl[ret.w] = "pend" /\ rd[ret.w] = "pend" /\ txq[ret.w]

\* C31: liveness of close.  With every flush eventually completing or
\* failing, a Close-Both for which the peer has signalled end-of-stream, or a
\* read of which has failed, eventually returns (or is cancelled by the drop
\* of the wrapper).  And a Close-Read or Close-Both returns only after its
\* discard has finished: by a read that failed, or by a read that found the
\* peer's end-of-stream; without either it never returns.
C31_CloseLiveness ==
    /\ \A w \in Socks :
          (pc[w] = "closeBoth" /\ (rx[w] = "eof" \/ rd[w] \in {"ok", "err"}))
              ~> (pc[w] \in {"open", "dropped"})
    /\ [][\A w \in Socks :
             (pc[w] \in {"closeRead", "closeBoth"} /\ pc'[w] = "open") =>
                 /\ ret'.op = pc[w] /\ ret'.w = w
                 /\ ret'.rd \in {"ok", "err"}
                 /\ ret'.rd = "ok" => rx[w] = "eof"
                 /\ (rd[w] = "pend" /\ rx[w] # "eof") => ret'.rd = "err"]_vars

\* A Close-Both returned Ok: its flush completed and its discard ended at the
\* end-of-stream the peer had signalled, with the connection half-closed.
C31_Witness ==
    /\ ret.op = "closeBoth" /\ ret.res = "Ok" /\ ret.fl = "ok" /\ ret.rd = "ok"
    /\ pc[ret.w] = "open" /\ rx[ret.w] = "eof" /\ eng[ret.w] = "closed"

====
